---------------------------- MODULE Spec2Model ----------------------------
(***************************************************************************)
(* The LISP-to-C compiler of src/index.js as a state machine.              *)
(*                                                                         *)
(* A JavaScript string is a sequence of one-character strings, so that     *)
(* "add" is <<"a", "d", "d">>.  A character that cannot be written in a    *)
(* string here stands as its code point: "U+00A0" is the one character     *)
(* U+00A0.  Indices are the code's own: 0-based.                           *)
(* Every function of the pipeline (tokenizer, parser, traverser,           *)
(* transformer, codeGenerator) is unfolded into the steps of its loops;    *)
(* pc names the function (and inner loop) that is running.                 *)
(* src/unnamed/part_000 holds the same tokenizer and parser, line for      *)
(* line; the line numbers below are those of src/index.js.                 *)
(***************************************************************************)
EXTENDS Integers, Sequences, FiniteSets, TLC

VARIABLES
    input,      \* tokenizer's parameter (index.js:35)
    pc,         \* the function / loop the program is in
    current,    \* `current` of tokenizer (l.36) and of parser (l.110)
    char,       \* tokenizer's `char` inside the string and letter loops
    value,      \* tokenizer's `value` inside the string and letter loops
    tokens,     \* tokenizer's `tokens` (l.37), then parser's parameter
    error,      \* the exception thrown, once pc = "thrown"
    ast,        \* parser's `ast` (l.154), then the argument of transformer
    frames,     \* the CallExpression nodes of the walk() calls in progress
    visitor,    \* traverser's `visitor` parameter
    tstack,     \* the traverseNode() calls in progress
    calls,      \* history: the callbacks the traverser has invoked
    context,    \* the `_context` fields set on the source nodes
    heap,       \* the arrays of the target tree under construction
    newAST,     \* the value transformer returned (l.288)
    output,     \* the value codeGenerator returned (l.289)
    source      \* history: the forms the input text was written from

vars == <<input, pc, current, char, value, tokens, error, ast, frames,
          visitor, tstack, calls, context, heap, newAST, output, source>>

----------------------------------------------------------------------------
(* Bounds of the model.                                                     *)

\* longest arbitrary input string given to the tokenizer
MaxLen == 4
\* most nodes (calls and literals) of a generated program
MaxNodes == 5
\* longest arbitrary token sequence given to the parser
MaxTokens == 5
\* most nodes of a tree given to the traverser on its own
MaxWalkNodes == 3
\* how far past the end of the input an inner loop of the tokenizer is followed
MaxOverrun == 2
\* how many undefined results of walk() in one array are followed
MaxStall == 2

----------------------------------------------------------------------------
(* Characters and strings.                                                  *)

\* the value of input[i] for i >= input.length
Undefined == "undefined"

Quote == "\""

Letters ==
    {"a", "b", "c", "d", "e", "f", "g", "h", "i", "j", "k", "l", "m",
     "n", "o", "p", "q", "r", "s", "t", "u", "v", "w", "x", "y", "z",
     "A", "B", "C", "D", "E", "F", "G", "H", "I", "J", "K", "L", "M",
     "N", "O", "P", "Q", "R", "S", "T", "U", "V", "W", "X", "Y", "Z"}

Digits == {"0", "1", "2", "3", "4", "5", "6", "7", "8", "9"}

\* String(c): what `+` and RegExp.prototype.test make of a character or of
\* undefined
Text(c) ==
    IF c = Undefined
    THEN <<"u", "n", "d", "e", "f", "i", "n", "e", "d">>
    ELSE <<c>>

\* char === "(" || char === ")"
IsParen(c) == c \in {"(", ")"}

\* the 25 characters \s of l.51 matches: tab, line feed, vertical tab, form
\* feed, carriage return, space, no-break space, ogham space mark, en quad
\* to hair space, line and paragraph separator, narrow no-break space,
\* medium mathematical space, ideographic space, byte order mark
Whitespace ==
    {"\t", "\n", "U+000B", "\f", "\r", " ", "U+00A0", "U+1680",
     "U+2000", "U+2001", "U+2002", "U+2003", "U+2004", "U+2005", "U+2006",
     "U+2007", "U+2008", "U+2009", "U+200A",
     "U+2028", "U+2029", "U+202F", "U+205F", "U+3000", "U+FEFF"}

\* WS = /\s/i
IsWS(c) == \E k \in 1..Len(Text(c)) : Text(c)[k] \in Whitespace

\* NUMBER = /[0-9]/i
IsNumber(c) == \E k \in 1..Len(Text(c)) : Text(c)[k] \in Digits

\* LETTER = /[a-z]/i; the pattern is not anchored, so it finds a letter in
\* the text "undefined" that undefined is converted to
IsLetter(c) == \E k \in 1..Len(Text(c)) : Text(c)[k] \in Letters

\* input[i]
CharAt(s, i) == IF i >= 0 /\ i < Len(s) THEN s[i + 1] ELSE Undefined

\* the text of the SyntaxError of l.103
SyntaxErrorMessage(c) ==
    <<"I dont know what this character is: ">> \o Text(c)

NoError == [name |-> "none", message |-> <<>>]
NoNode == [type |-> "none"]
NoVisitor == [t \in {} |-> {}]

----------------------------------------------------------------------------
(* tokenizer (index.js:35-106).                                             *)

Token(t, v) == [type |-> t, value |-> v]

InTokenizerLoop == pc = "tokenizer" /\ current < Len(input)

\* l.42-49
tokenizer_paren ==
    /\ InTokenizerLoop
    /\ IsParen(CharAt(input, current))
    /\ tokens' = Append(tokens, Token("paren", <<CharAt(input, current)>>))
    /\ current' = current + 1
    /\ UNCHANGED <<input, pc, char, value, error, ast, frames, visitor,
                   tstack, calls, context, heap, newAST, output, source>>

\* l.51-56
tokenizer_whitespace ==
    /\ InTokenizerLoop
    /\ ~IsParen(CharAt(input, current))
    /\ IsWS(CharAt(input, current))
    /\ current' = current + 1
    /\ UNCHANGED <<input, pc, char, value, tokens, error, ast, frames, visitor,
                   tstack, calls, context, heap, newAST, output, source>>

\* l.58-67
tokenizer_number ==
    /\ InTokenizerLoop
    /\ ~IsParen(CharAt(input, current))
    /\ ~IsWS(CharAt(input, current))
    /\ IsNumber(CharAt(input, current))
    /\ tokens' = Append(tokens, Token("number", <<CharAt(input, current)>>))
    /\ current' = current + 1
    /\ UNCHANGED <<input, pc, char, value, error, ast, frames, visitor,
                   tstack, calls, context, heap, newAST, output, source>>

AtOther ==
    /\ InTokenizerLoop
    /\ ~IsParen(CharAt(input, current))
    /\ ~IsWS(CharAt(input, current))
    /\ ~IsNumber(CharAt(input, current))

\* l.69-71: the opening quote; value = '', char = input[++current]
tokenizer_quote ==
    /\ AtOther
    /\ CharAt(input, current) = Quote
    /\ value' = <<>>
    /\ current' = current + 1
    /\ char' = CharAt(input, current + 1)
    /\ pc' = "tokenizer_string"
    /\ UNCHANGED <<input, tokens, error, ast, frames, visitor,
                   tstack, calls, context, heap, newAST, output, source>>

\* l.73-76: one turn of while (char !== '"').  Nothing in the loop looks at
\* input.length; the model follows it MaxOverrun characters past the end.
tokenizer_string_char ==
    /\ pc = "tokenizer_string"
    /\ char # Quote
    /\ current < Len(input) + MaxOverrun
    /\ value' = value \o Text(char)
    /\ current' = current + 1
    /\ char' = CharAt(input, current + 1)
    /\ UNCHANGED <<input, pc, tokens, error, ast, frames, visitor,
                   tstack, calls, context, heap, newAST, output, source>>

\* l.77-82: the closing quote
tokenizer_string_end ==
    /\ pc = "tokenizer_string"
    /\ char = Quote
    /\ current' = current + 1
    /\ char' = CharAt(input, current + 1)
    /\ tokens' = Append(tokens, Token("string", value))
    /\ pc' = "tokenizer"
    /\ UNCHANGED <<input, value, error, ast, frames, visitor,
                   tstack, calls, context, heap, newAST, output, source>>

\* l.85-88: a letter; value = ''
tokenizer_letter ==
    /\ AtOther
    /\ CharAt(input, current) # Quote
    /\ IsLetter(CharAt(input, current))
    /\ value' = <<>>
    /\ char' = CharAt(input, current)
    /\ pc' = "tokenizer_letter"
    /\ UNCHANGED <<input, current, tokens, error, ast, frames, visitor,
                   tstack, calls, context, heap, newAST, output, source>>

\* l.90-93: one turn of while (LETTER.test(char)); followed MaxOverrun
\* characters past the end, like the string loop
tokenizer_letter_char ==
    /\ pc = "tokenizer_letter"
    /\ IsLetter(char)
    /\ current < Len(input) + MaxOverrun
    /\ value' = value \o Text(char)
    /\ current' = current + 1
    /\ char' = CharAt(input, current + 1)
    /\ UNCHANGED <<input, pc, tokens, error, ast, frames, visitor,
                   tstack, calls, context, heap, newAST, output, source>>

\* l.95-100
tokenizer_letter_end ==
    /\ pc = "tokenizer_letter"
    /\ ~IsLetter(char)
    /\ tokens' = Append(tokens, Token("name", value))
    /\ pc' = "tokenizer"
    /\ UNCHANGED <<input, current, char, value, error, ast, frames, visitor,
                   tstack, calls, context, heap, newAST, output, source>>

\* l.103
tokenizer_throw ==
    /\ AtOther
    /\ CharAt(input, current) # Quote
    /\ ~IsLetter(CharAt(input, current))
    /\ pc' = "thrown"
    /\ error' = [name |-> "SyntaxError",
                 message |-> SyntaxErrorMessage(CharAt(input, current))]
    /\ UNCHANGED <<input, current, char, value, tokens, ast, frames, visitor,
                   tstack, calls, context, heap, newAST, output, source>>

\* l.105 return tokens; l.287 parser(tokens): current = 0 (l.110),
\* ast = { type: 'Program', body: [] } (l.154-157)
tokenizer_return ==
    /\ pc = "tokenizer"
    /\ current >= Len(input)
    /\ pc' = "parser"
    /\ current' = 0
    /\ ast' = [type |-> "Program", body |-> <<>>]
    /\ frames' = <<>>
    /\ UNCHANGED <<input, char, value, tokens, error, visitor,
                   tstack, calls, context, heap, newAST, output, source>>

tokenizer ==
    \/ tokenizer_paren
    \/ tokenizer_whitespace
    \/ tokenizer_number
    \/ tokenizer_quote
    \/ tokenizer_string_char
    \/ tokenizer_string_end
    \/ tokenizer_letter
    \/ tokenizer_letter_char
    \/ tokenizer_letter_end
    \/ tokenizer_throw
    \/ tokenizer_return

----------------------------------------------------------------------------
(* parser (index.js:109-165).                                               *)
(*                                                                          *)
(* frames holds, innermost last, the CallExpression node of every walk()    *)
(* call that is inside its while loop (l.142-145).                          *)

\* what walk() returns when none of its three branches is taken (l.151)
UndefinedNode == [type |-> "undefined"]

NumberLiteral(v) == [type |-> "NumberLiteral", value |-> v]
StringLiteral(v) == [type |-> "StringLiteral", value |-> v]
CallExpression(n, p) == [type |-> "CallExpression", name |-> n, params |-> p]

\* tokens[i] is undefined for i >= tokens.length
HasToken(i) == i < Len(tokens)
TokenAt(i) == tokens[i + 1]

IsOpen(t) == t.type = "paren" /\ t.value = <<"(">>
IsClose(t) == t.type = "paren" /\ t.value = <<")">>

\* the property read that fails on an undefined token
TypeErrorOf(property) ==
    [name |-> "TypeError",
     message |-> <<"Cannot read properties of undefined (reading '",
                   property, "')">>]

\* walk() is called: by the top-level loop (l.159-161) or by the loop of an
\* open call, whose condition (l.142) has just read the current token
WalkCalled ==
    /\ pc = "parser"
    /\ HasToken(current)
    /\ frames # <<>> => ~IsClose(TokenAt(current))

\* the array the result of the walk() call in progress is pushed to:
\* node.params of the open call (l.143), else ast.body (l.161)
Target == IF frames # <<>> THEN frames[Len(frames)].params ELSE ast.body

Undefineds(array) == Cardinality({k \in 1..Len(array) : array[k] = UndefinedNode})

\* node.params.push(result) / ast.body.push(result)
Push(result) ==
    IF frames # <<>>
    THEN /\ frames' = [frames EXCEPT ![Len(frames)].params = Append(@, result)]
         /\ ast' = ast
    ELSE /\ ast' = [ast EXCEPT !.body = Append(@, result)]
         /\ frames' = frames

\* l.115-121
walk_number ==
    /\ WalkCalled
    /\ TokenAt(current).type = "number"
    /\ current' = current + 1
    /\ Push(NumberLiteral(TokenAt(current).value))
    /\ UNCHANGED <<input, pc, char, value, tokens, error, visitor,
                   tstack, calls, context, heap, newAST, output, source>>

\* l.123-129
walk_string ==
    /\ WalkCalled
    /\ TokenAt(current).type = "string"
    /\ current' = current + 1
    /\ Push(StringLiteral(TokenAt(current).value))
    /\ UNCHANGED <<input, pc, char, value, tokens, error, visitor,
                   tstack, calls, context, heap, newAST, output, source>>

\* l.131-140: an opening paren; the next token, whatever it is, names the call
walk_call ==
    /\ WalkCalled
    /\ IsOpen(TokenAt(current))
    /\ IF HasToken(current + 1)
       THEN /\ frames' = Append(frames,
                                CallExpression(TokenAt(current + 1).value, <<>>))
            /\ current' = current + 2
            /\ UNCHANGED <<pc, error>>
       ELSE /\ pc' = "thrown"
            /\ error' = TypeErrorOf("value")
            /\ current' = current + 1
            /\ UNCHANGED frames
    /\ UNCHANGED <<input, char, value, tokens, ast, visitor,
                   tstack, calls, context, heap, newAST, output, source>>

\* l.142: the loop condition reads token.type of a token past the end
walk_past_end ==
    /\ pc = "parser"
    /\ frames # <<>>
    /\ ~HasToken(current)
    /\ pc' = "thrown"
    /\ error' = TypeErrorOf("type")
    /\ UNCHANGED <<input, current, char, value, tokens, ast, frames, visitor,
                   tstack, calls, context, heap, newAST, output, source>>

\* l.142, 147-149: the closing paren of the innermost open call
walk_close ==
    /\ pc = "parser"
    /\ frames # <<>>
    /\ HasToken(current)
    /\ IsClose(TokenAt(current))
    /\ current' = current + 1
    /\ LET node == frames[Len(frames)]
           rest == SubSeq(frames, 1, Len(frames) - 1)
       IN  IF rest # <<>>
           THEN /\ frames' = [rest EXCEPT ![Len(rest)].params = Append(@, node)]
                /\ ast' = ast
           ELSE /\ ast' = [ast EXCEPT !.body = Append(@, node)]
                /\ frames' = rest
    /\ UNCHANGED <<input, pc, char, value, tokens, error, visitor,
                   tstack, calls, context, heap, newAST, output, source>>

\* l.151: a name token, or a closing paren at top level: walk() falls off
\* its end, returns undefined and leaves current alone; the caller pushes the
\* result and calls walk() again.  Followed MaxStall times per array.
walk_undefined ==
    /\ WalkCalled
    /\ TokenAt(current).type \notin {"number", "string"}
    /\ ~IsOpen(TokenAt(current))
    /\ Undefineds(Target) < MaxStall
    /\ Push(UndefinedNode)
    /\ UNCHANGED <<input, pc, current, char, value, tokens, error, visitor,
                   tstack, calls, context, heap, newAST, output, source>>

\* l.159, 164: the top-level loop ends; return ast; l.288 transformer(ast)
parser_return ==
    /\ pc = "parser"
    /\ frames = <<>>
    /\ ~HasToken(current)
    /\ pc' = "transformer"
    /\ UNCHANGED <<input, current, char, value, tokens, error, ast, frames,
                   visitor, tstack, calls, context, heap, newAST, output, source>>

parser ==
    \/ walk_number
    \/ walk_string
    \/ walk_call
    \/ walk_past_end
    \/ walk_close
    \/ walk_undefined
    \/ parser_return

----------------------------------------------------------------------------
(* traverser (index.js:168-203).                                            *)
(*                                                                          *)
(* A node of the tree in ast is named by its path from the root: the        *)
(* 1-based positions taken through body / params.  tstack holds, innermost  *)
(* last, one frame per traverseNode(node, parent) call in progress: its     *)
(* two arguments, and the position of the child its forEach is at (0: the   *)
(* call has just begun).                                                    *)

\* the parent passed for the root (l.202): null, the path of no node
Null == <<0>>

\* the array the switch of l.183-195 walks into
Children(node) ==
    CASE node.type = "Program" -> node.body
      [] node.type = "CallExpression" -> node.params
      [] OTHER -> <<>>

RECURSIVE NodeAt(_, _)
NodeAt(root, path) ==
    IF path = <<>> THEN root
    ELSE NodeAt(Children(root)[Head(path)], Tail(path))

\* a callback that is not registered
NoCallback == "none"
NoMethods == [enter |-> NoCallback, exit |-> NoCallback]

\* visitor[node.type] (l.177)
Methods(type) == IF type \in DOMAIN visitor THEN visitor[type] ELSE NoMethods

\* the case labels of l.184-191
KnownTypes == {"Program", "CallExpression", "NumberLiteral", "StringLiteral"}

Traversing == pc \in {"traverser", "transformer_traverser"} /\ tstack # <<>>

Top == tstack[Len(tstack)]

\* the child called with the parent of its parent
ChildCallWrongParent(top) ==
    [node |-> Append(top.node, top.next), parent |-> top.parent, next |-> 0]

\* traverseNode(child, parent), as traverseArray calls it (l.172) for the
\* child at position Top.next of the node of the top frame (l.185, 188)
ChildCall(top) ==
    [node |-> Append(top.node, top.next), parent |-> top.node, next |-> 0]

\* traverseNode(ast, null) (l.202)
RootCall == [node |-> <<>>, parent |-> Null, next |-> 0]

\* methods.enter(node, parent) / methods.exit(node, parent) (l.180, 198)
Invocation(which, frame) ==
    [callback |-> which, node |-> frame.node, parent |-> frame.parent]

----------------------------------------------------------------------------
(* The callbacks of transformer's visitor (index.js:217-257).               *)
(*                                                                          *)
(* heap[k] is the k-th array the transformer creates: newAst.body is array  *)
(* 1 and every expression.arguments is a new one.  A target CallExpression  *)
(* holds the number of its arguments array; context maps the path of a      *)
(* source node to the number of the array its _context field refers to.     *)

Identifier(n) == [type |-> "Identifier", name |-> n]
TargetCall(n, args) ==
    [type |-> "CallExpression", callee |-> Identifier(n), arguments |-> args]
ExpressionStatement(e) == [type |-> "ExpressionStatement", expression |-> e]

\* every call taken to be at statement position
IsStatementPositionAlways(parent) == TRUE

\* l.248: parent.type !== 'CallExpression'
IsStatementPosition(parent) == parent.type # "CallExpression"

\* l.219-222, 228-231: parent._context.push({ type, value: node.value })
LiteralEnter(h, node, parent) ==
    [h EXCEPT ![context[parent]] =
        Append(@, [type |-> NodeAt(ast, node).type,
                   value |-> NodeAt(ast, node).value])]

\* l.237-255: the new call, wrapped at statement position, is pushed to the
\* parent's array; its own arguments array is the next array created
CallEnter(h, node, parent) ==
    LET expression == TargetCall(NodeAt(ast, node).name, Len(h) + 1)
        pushed == IF IsStatementPosition(NodeAt(ast, parent))
                  THEN ExpressionStatement(expression)
                  ELSE expression
    IN  Append([h EXCEPT ![context[parent]] = Append(@, pushed)], <<>>)

\* l.215-258: the visitor transformer hands to traverser
TransformerVisitor ==
    ("NumberLiteral" :>
        [enter |-> "transformer.NumberLiteral.enter", exit |-> NoCallback])
    @@ ("StringLiteral" :>
        [enter |-> "transformer.StringLiteral.enter", exit |-> NoCallback])
    @@ ("CallExpression" :>
        [enter |-> "transformer.CallExpression.enter", exit |-> NoCallback])

\* the arrays after callback cb is called with (node, parent)
HeapAfter(cb, node, parent) ==
    CASE cb \in {"transformer.NumberLiteral.enter",
                 "transformer.StringLiteral.enter"} ->
             LiteralEnter(heap, node, parent)
      [] cb = "transformer.CallExpression.enter" -> CallEnter(heap, node, parent)
      [] OTHER -> heap

\* l.246: node._context = expression.arguments
ContextAfter(cb, node) ==
    IF cb = "transformer.CallExpression.enter"
    THEN (node :> Len(heap) + 1) @@ context
    ELSE context

\* l.177-195: traverseNode(node, parent) begins: the enter callback, then
\* the switch on node.type
traverseNode_enter ==
    /\ Traversing
    /\ Top.next = 0
    /\ LET path == Top.node
           node == NodeAt(ast, path)
           cb == Methods(node.type).enter
       IN  /\ IF cb # NoCallback
              THEN /\ calls' = Append(calls, Invocation("enter", Top))
                   /\ heap' = HeapAfter(cb, path, Top.parent)
                   /\ context' = ContextAfter(cb, path)
              ELSE UNCHANGED <<calls, heap, context>>
           /\ IF node.type \in KnownTypes
              THEN /\ tstack' = [tstack EXCEPT ![Len(tstack)].next = 1]
                   /\ UNCHANGED <<pc, error>>
              ELSE /\ pc' = "thrown"
                   /\ error' = [name |-> "TypeError", message |-> <<node.type>>]
                   /\ UNCHANGED tstack
    /\ UNCHANGED <<input, current, char, value, tokens, ast, frames, visitor,
                   newAST, output, source>>

\* l.170-174: forEach calls traverseNode(child, parent) for the next child
traverseArray_child ==
    /\ Traversing
    /\ Top.next \in 1..Len(Children(NodeAt(ast, Top.node)))
    /\ tstack' = Append(tstack, ChildCall(Top))
    /\ UNCHANGED <<input, pc, current, char, value, tokens, error, ast, frames,
                   visitor, calls, context, heap, newAST, output, source>>

\* l.197-200: the children are done: the exit callback, and traverseNode
\* returns to the forEach of its caller
traverseNode_exit ==
    /\ Traversing
    /\ Top.next = Len(Children(NodeAt(ast, Top.node))) + 1
    /\ LET path == Top.node
           cb == Methods(NodeAt(ast, path).type).exit
           rest == SubSeq(tstack, 1, Len(tstack) - 1)
       IN  /\ IF cb # NoCallback
              THEN /\ calls' = Append(calls, Invocation("exit", Top))
                   /\ heap' = HeapAfter(cb, path, Top.parent)
                   /\ context' = ContextAfter(cb, path)
              ELSE UNCHANGED <<calls, heap, context>>
           /\ tstack' = IF rest = <<>> THEN rest
                        ELSE [rest EXCEPT ![Len(rest)].next = @ + 1]
    /\ UNCHANGED <<input, pc, current, char, value, tokens, error, ast, frames,
                   visitor, newAST, output, source>>

\* l.202-203: traverseNode(ast, null) has returned, and traverser returns
traverser_return ==
    /\ pc = "traverser"
    /\ tstack = <<>>
    /\ pc' = "traversed"
    /\ UNCHANGED <<input, current, char, value, tokens, error, ast, frames,
                   visitor, tstack, calls, context, heap, newAST, output, source>>

traverser ==
    \/ traverseNode_enter
    \/ traverseArray_child
    \/ traverseNode_exit

----------------------------------------------------------------------------
(* transformer (index.js:206-261).                                          *)

\* the tree an array of the heap is the root of
RECURSIVE Deref(_, _)
Deref(h, k) ==
    LET node(n) ==
            CASE n.type = "CallExpression" ->
                     [n EXCEPT !.arguments = Deref(h, n.arguments)]
              [] n.type = "ExpressionStatement" ->
                     [n EXCEPT !.expression =
                         [n.expression EXCEPT !.arguments =
                             Deref(h, n.expression.arguments)]]
              [] OTHER -> n
    IN  [i \in 1..Len(h[k]) |-> node(h[k][i])]

\* l.208-215: newAst = { type: 'Program', body: [] }; ast._context =
\* newAst.body; traverser(ast, { ... }) is called
transformer_call ==
    /\ pc = "transformer"
    /\ heap' = << <<>> >>
    /\ context' = (<<>> :> 1)
    /\ visitor' = TransformerVisitor
    /\ tstack' = <<RootCall>>
    /\ calls' = <<>>
    /\ pc' = "transformer_traverser"
    /\ UNCHANGED <<input, current, char, value, tokens, error, ast, frames,
                   newAST, output, source>>

\* l.260 return newAst; l.288 newAST = transformer(ast)
transformer_return ==
    /\ pc = "transformer_traverser"
    /\ tstack = <<>>
    /\ newAST' = [type |-> "Program", body |-> Deref(heap, 1)]
    /\ pc' = "codeGenerator"
    /\ UNCHANGED <<input, current, char, value, tokens, error, ast, frames,
                   visitor, tstack, calls, context, heap, output, source>>

----------------------------------------------------------------------------
(* codeGenerator (index.js:264-284).                                        *)

\* array.join(separator), of an array of strings
RECURSIVE Join(_, _)
Join(array, separator) ==
    IF array = <<>> THEN <<>>
    ELSE IF Len(array) = 1 THEN array[1]
    ELSE array[1] \o separator \o Join(Tail(array), separator)

\* l.268
StatementSeparator == <<"\n">>
\* a separator without its space
ArgumentSeparatorNoSpace == <<",">>

\* l.273
ArgumentSeparator == <<",", " ">>

\* the types of the nodes that reach the default case (l.281-282), in the
\* order codeGenerator comes to them
RECURSIVE Flatten(_)
Flatten(lists) == IF lists = <<>> THEN <<>> ELSE Head(lists) \o Flatten(Tail(lists))

RECURSIVE UnknownTypes(_)
UnknownTypes(node) ==
    CASE node.type = "Program" ->
             Flatten([k \in 1..Len(node.body) |-> UnknownTypes(node.body[k])])
      [] node.type = "ExpressionStatement" -> UnknownTypes(node.expression)
      [] node.type = "CallExpression" ->
             UnknownTypes(node.callee)
             \o Flatten([k \in 1..Len(node.arguments) |->
                            UnknownTypes(node.arguments[k])])
      [] node.type \in {"Identifier", "NumberLiteral", "StringLiteral"} -> <<>>
      [] OTHER -> <<node.type>>

RECURSIVE codeGenerator(_)
codeGenerator(node) ==
    CASE node.type = "Program" ->
             Join([k \in 1..Len(node.body) |-> codeGenerator(node.body[k])],
                  StatementSeparator)
      [] node.type = "ExpressionStatement" ->
             codeGenerator(node.expression) \o <<";">>
      [] node.type = "CallExpression" ->
             codeGenerator(node.callee) \o <<"(">>
             \o Join([k \in 1..Len(node.arguments) |->
                         codeGenerator(node.arguments[k])], ArgumentSeparator)
             \o <<")">>
      [] node.type = "Identifier" -> node.name
      [] node.type = "NumberLiteral" -> node.value
      [] node.type = "StringLiteral" -> <<Quote>> \o node.value \o <<Quote>>

\* l.289 output = codeGenerator(newAST)
codeGenerator_call ==
    /\ pc = "codeGenerator"
    /\ IF UnknownTypes(newAST) # <<>>
       THEN /\ pc' = "thrown"
            /\ error' = [name |-> "TypeError",
                         message |-> <<Head(UnknownTypes(newAST))>>]
            /\ UNCHANGED output
       ELSE /\ pc' = "done"
            /\ output' = codeGenerator(newAST)
            /\ UNCHANGED error
    /\ UNCHANGED <<input, current, char, value, tokens, ast, frames, visitor,
                   tstack, calls, context, heap, newAST, source>>

----------------------------------------------------------------------------
(* Inputs.                                                                  *)

\* the characters arbitrary input strings are made of: one of each class
\* the tokenizer tells apart, and a second whitespace character
Alphabet == {"(", ")", " ", "\f", "2", "a", Quote, "#"}

Strings(n) == UNION {[1..k -> Alphabet] : k \in 0..n}

\* the names and literals generated programs are made of
Names == {<<"a", "b">>}
Literals == {NumberLiteral(<<"2">>), StringLiteral(<<"#">>)}

\* the expressions of exactly n nodes, and the sequences of expressions of
\* k nodes in all
RECURSIVE Exprs(_), Forests(_)
Exprs(n) ==
    IF n = 1
    THEN Literals \cup {CallExpression(name, <<>>) : name \in Names}
    ELSE {CallExpression(name, params) : name \in Names, params \in Forests(n - 1)}
Forests(k) ==
    IF k = 0 THEN {<<>>}
    ELSE UNION {{<<e>> \o f : e \in Exprs(i), f \in Forests(k - i)} : i \in 1..k}

\* one or more top-level forms (name expr...)
Programs ==
    {f \in UNION {Forests(k) : k \in 1..MaxNodes} :
        \A i \in 1..Len(f) : f[i].type = "CallExpression"}

\* the source text of an expression, its elements separated by sep
RECURSIVE Lisp(_, _)
Lisp(e, sep) ==
    CASE e.type = "NumberLiteral" -> e.value
      [] e.type = "StringLiteral" -> <<Quote>> \o e.value \o <<Quote>>
      [] e.type = "CallExpression" ->
             <<"(">> \o e.name
             \o Flatten([k \in 1..Len(e.params) |-> sep \o Lisp(e.params[k], sep)])
             \o <<")">>

LispText(forms, sep) == Join([k \in 1..Len(forms) |-> Lisp(forms[k], sep)], sep)

\* elements separated by a space, or not separated at all
Layouts == {<<" ">>, <<>>}

\* '(add 2 (subtract 4 2))' (l.286)
DemoSource ==
    <<CallExpression(<<"a", "d", "d">>,
        <<NumberLiteral(<<"2">>),
          CallExpression(<<"s", "u", "b", "t", "r", "a", "c", "t">>,
            <<NumberLiteral(<<"4">>), NumberLiteral(<<"2">>)>>)>>)>>
DemoInput == LispText(DemoSource, <<" ">>)

\* the tokens arbitrary token sequences are made of
TokenAlphabet ==
    {Token("paren", <<"(">>), Token("paren", <<")">>), Token("number", <<"2">>),
     Token("string", <<>>), Token("name", <<"a">>)}

TokenSeqs(n) == UNION {[1..k -> TokenAlphabet] : k \in 0..n}

\* the callbacks of a visitor that only watches
Observers ==
    [KnownTypes -> [enter : {NoCallback, "observer"}, exit : {NoCallback, "observer"}]]

\* a target tree: its ExpressionStatement is no case of the switch of l.183
TargetExample ==
    [type |-> "Program",
     body |-> <<ExpressionStatement(TargetCall(<<"a">>, <<>>))>>]

WalkTrees ==
    {[type |-> "Program", body |-> f] :
        f \in UNION {Forests(k) : k \in 0..MaxWalkNodes}}
    \cup {TargetExample}

----------------------------------------------------------------------------
(* Specifications.                                                          *)

Idle ==
    /\ current = 0
    /\ char = Undefined
    /\ value = <<>>
    /\ error = NoError
    /\ frames = <<>>
    /\ calls = <<>>
    /\ context = <<>>
    /\ heap = <<>>
    /\ newAST = NoNode
    /\ output = <<>>

\* the pipeline of l.286-289, on the demo text, on a generated program or on
\* an arbitrary string
Init ==
    /\ \/ input = DemoInput /\ source = DemoSource
       \/ \E p \in Programs, sep \in Layouts :
              input = LispText(p, sep) /\ source = p
       \/ input \in Strings(MaxLen) /\ source = <<>>
    /\ pc = "tokenizer"
    /\ tokens = <<>>
    /\ ast = NoNode
    /\ visitor = NoVisitor
    /\ tstack = <<>>
    /\ Idle

Next ==
    \/ tokenizer
    \/ parser
    \/ transformer_call
    \/ traverser
    \/ transformer_return
    \/ codeGenerator_call

Spec == Init /\ [][Next]_vars

\* parser called on an arbitrary token sequence
InitParser ==
    /\ input = <<>>
    /\ source = <<>>
    /\ pc = "parser"
    /\ tokens \in TokenSeqs(MaxTokens)
    /\ ast = [type |-> "Program", body |-> <<>>]
    /\ visitor = NoVisitor
    /\ tstack = <<>>
    /\ Idle

SpecParser == InitParser /\ [][parser]_vars

\* traverser called on an arbitrary tree with an arbitrary watching visitor
InitTraverser ==
    /\ input = <<>>
    /\ source = <<>>
    /\ pc = "traverser"
    /\ tokens = <<>>
    /\ ast \in WalkTrees
    /\ visitor \in Observers
    /\ tstack = <<RootCall>>
    /\ Idle

NextTraverser == traverser \/ traverser_return

SpecTraverser == InitTraverser /\ [][NextTraverser]_vars

----------------------------------------------------------------------------
(* Properties.                                                              *)

\* the tokenizer is running
Tokenizing == pc \in {"tokenizer", "tokenizer_string", "tokenizer_letter"}

\* the tokenizer has returned its tokens (the only errors thrown after it
\* are TypeErrors)
Tokenized ==
    \/ pc \in {"parser", "transformer", "transformer_traverser",
               "codeGenerator", "done"}
    \/ pc = "thrown" /\ error.name = "TypeError"

\* the transformer has returned
Transformed == pc \in {"codeGenerator", "done"}

\* the C text the forms of a program stand for
RECURSIVE CText(_)
CText(e) ==
    CASE e.type = "NumberLiteral" -> e.value
      [] e.type = "StringLiteral" -> <<Quote>> \o e.value \o <<Quote>>
      [] e.type = "CallExpression" ->
             e.name \o <<"(">>
             \o Flatten([k \in 1..Len(e.params) |->
                    (IF k = 1 THEN <<>> ELSE <<",", " ">>) \o CText(e.params[k])])
             \o <<")">>

CProgram(forms) ==
    Flatten([k \in 1..Len(forms) |->
        (IF k = 1 THEN <<>> ELSE <<"\n">>) \o CText(forms[k]) \o <<";">>])

\* C1: the pipeline, run on the text of a program of one or more top-level
\* forms (name expr...), never throws, runs to its end, and ends with the
\* output name(arg1, arg2, ...); for each form: nested calls rendered the
\* same way without a semicolon, arguments separated by comma and space,
\* digits verbatim, strings back in double quotes, statements joined by a
\* newline.
C1_CompilesForms ==
    source # <<>> =>
        /\ pc # "thrown"
        /\ pc # "done" => ENABLED Next
        /\ pc = "done" => output = CProgram(source)

\* C1: '(add 2 (subtract 4 2))' has been compiled to 'add(2, subtract(4, 2));'
C1_Witness ==
    /\ pc = "done"
    /\ source = DemoSource
    /\ output = <<"a", "d", "d", "(", "2", ",", " ",
                  "s", "u", "b", "t", "r", "a", "c", "t", "(", "4", ",", " ", "2",
                  ")", ")", ";">>

\* the nodes of a source tree, as paths
RECURSIVE Paths(_)
Paths(node) ==
    {<<>>} \cup
    UNION {{<<k>> \o p : p \in Paths(Children(node)[k])} :
               k \in 1..Len(Children(node))}

\* C8: once transformer has returned, no source node carries a _context
\* field, the target tree holds no reference to an array of the heap in
\* place of a node list, and the source tree is the one parser returned.
C8_SourceLeftAsItWas ==
    Transformed =>
        /\ DOMAIN context = {}
        /\ \A k \in 1..Len(newAST.body) : "_context" \notin DOMAIN newAST.body[k]
        /\ ast = [type |-> "Program", body |-> ast.body]

\* the target tree that mirrors a source node whose parent has type parent
RECURSIVE Mirror(_, _)
Mirror(node, parent) ==
    CASE node.type = "Program" ->
             [type |-> "Program",
              body |-> [k \in 1..Len(node.body) |-> Mirror(node.body[k], "Program")]]
      [] node.type = "CallExpression" ->
             LET call == [type |-> "CallExpression",
                          callee |-> [type |-> "Identifier", name |-> node.name],
                          arguments |-> [k \in 1..Len(node.params) |->
                                            Mirror(node.params[k], "CallExpression")]]
             IN  IF parent = "Program"
                 THEN [type |-> "ExpressionStatement", expression |-> call]
                 ELSE call
      [] OTHER -> [type |-> node.type, value |-> node.value]

\* C10: the Program transformer returns mirrors the source Program: one body
\* element per source element, in order; a call becomes a CallExpression
\* with an Identifier callee of the same name and the mirrored params as
\* arguments, wrapped in an ExpressionStatement exactly when its parent is
\* the Program; literals keep their value and are never wrapped.
C10_TargetMirrorsSource ==
    Transformed => newAST = Mirror(ast, "none")

\* C10: a Program with a call nested in a top-level call has been transformed
C10_Witness ==
    /\ Transformed
    /\ Len(ast.body) >= 1
    /\ ast.body[1].type = "CallExpression"
    /\ \E k \in 1..Len(ast.body[1].params) :
           /\ ast.body[1].params[k].type = "CallExpression"
           /\ newAST.body[1].type = "ExpressionStatement"
           /\ newAST.body[1].expression.arguments[k].type = "CallExpression"
           /\ k > 1
           /\ newAST.body[1].expression.arguments[1].type = "NumberLiteral"

\* the classes of characters the lexical rules name
ParenChars == {"(", ")"}
\* whitespace: the WhiteSpace and LineTerminator characters of the language
WhitespaceChars ==
    {" ", "\t", "\n", "\r", "\f", "U+000B", "U+00A0", "U+FEFF", "U+1680"}
    \cup {"U+2000", "U+2001", "U+2002", "U+2003", "U+2004", "U+2005",
          "U+2006", "U+2007", "U+2008", "U+2009", "U+200A"}
    \cup {"U+202F", "U+205F", "U+3000"}
    \cup {"U+2028", "U+2029"}
Recognized == ParenChars \cup WhitespaceChars \cup Digits \cup Letters \cup {Quote}

\* the 0-based position of the first quote of s at or after position i, or
\* Len(s) when there is none
RECURSIVE QuoteFrom(_, _)
QuoteFrom(s, i) ==
    IF i >= Len(s) \/ s[i + 1] = Quote THEN i ELSE QuoteFrom(s, i + 1)

\* the 0-based position after the run of letters of s that starts at i
RECURSIVE RunEnd(_, _)
RunEnd(s, i) ==
    IF i >= Len(s) \/ s[i + 1] \notin Letters THEN i ELSE RunEnd(s, i + 1)

\* from position i on, s is made only of parentheses, whitespace, digits,
\* letters and double-quoted strings whose closing quote is present
RECURSIVE WellFormedFrom(_, _)
WellFormedFrom(s, i) ==
    IF i >= Len(s) THEN TRUE
    ELSE IF s[i + 1] = Quote
         THEN /\ QuoteFrom(s, i + 1) < Len(s)
              /\ WellFormedFrom(s, QuoteFrom(s, i + 1) + 1)
         ELSE /\ s[i + 1] \in Recognized
              /\ WellFormedFrom(s, i + 1)

\* the tokens the lexical rules give for such a text, from position i on
RECURSIVE TokensFrom(_, _)
TokensFrom(s, i) ==
    IF i >= Len(s) THEN <<>>
    ELSE LET c == s[i + 1]
         IN  CASE c \in ParenChars ->
                      <<[type |-> "paren", value |-> <<c>>]>> \o TokensFrom(s, i + 1)
               [] c \in WhitespaceChars -> TokensFrom(s, i + 1)
               [] c \in Digits ->
                      <<[type |-> "number", value |-> <<c>>]>> \o TokensFrom(s, i + 1)
               [] c = Quote ->
                      <<[type |-> "string",
                         value |-> SubSeq(s, i + 2, QuoteFrom(s, i + 1))]>>
                      \o TokensFrom(s, QuoteFrom(s, i + 1) + 1)
               [] c \in Letters ->
                      <<[type |-> "name", value |-> SubSeq(s, i + 1, RunEnd(s, i))]>>
                      \o TokensFrom(s, RunEnd(s, i))

\* inside its string and letter loops the tokenizer has collected exactly
\* the characters of the input that end at the cursor
CollectedFromInput ==
    pc \in {"tokenizer_string", "tokenizer_letter"} =>
        /\ current <= Len(input)
        /\ value = SubSeq(input, current - Len(value) + 1, current)

\* C2: on a text made only of parentheses, whitespace, digits, letters and
\* closed double-quoted strings the tokenizer throws nothing, collects in a
\* string or name token exactly characters of the text, and returns the
\* tokens in order: one paren token per parenthesis, none for whitespace,
\* one number token per digit, one string token per quoted run, one name
\* token per maximal run of letters.
C2_TokensOfWellFormedText ==
    WellFormedFrom(input, 0) =>
        /\ ~(pc = "thrown" /\ error.name = "SyntaxError")
        /\ CollectedFromInput
        /\ Tokenized => tokens = TokensFrom(input, 0)

\* C3: the cursor of the tokenizer never moves past the end of the input
\* (so that every scan ends, by a return or by an error, within the input).
C3_CursorStaysInInput ==
    Tokenizing => current <= Len(input)

\* the main loop of the tokenizer is at a character, outside a string
\* literal, that no lexical rule recognizes
AtUnrecognized ==
    /\ pc = "tokenizer"
    /\ current < Len(input)
    /\ input[current + 1] \notin Recognized

\* the decimal text of a natural number
RECURSIVE Decimal(_)
Decimal(n) ==
    LET digit == <<"0", "1", "2", "3", "4", "5", "6", "7", "8", "9">>
    IN  IF n < 10 THEN <<digit[n + 1]>>
        ELSE Decimal(n \div 10) \o <<digit[(n % 10) + 1]>>

\* text occurs in the sequence of strings message
Mentions(message, text) ==
    \E k \in 0..(Len(message) - Len(text)) :
        SubSeq(message, k + 1, k + Len(text)) = text

\* the error of the step says at which position the tokenizer stopped
ErrorNamesPosition ==
    \/ "position" \in DOMAIN error' /\ error'.position = current
    \/ Mentions(error'.message, Decimal(current))

\* the step ends the tokenizer call with a SyntaxError: no token is added
\* and no value is returned
ThrowsSyntaxError ==
    /\ pc' = "thrown"
    /\ error'.name = "SyntaxError"
    /\ tokens' = tokens

\* a call that has thrown does nothing more
ThrownIsFinal == pc = "thrown" => UNCHANGED vars

\* C4: at an unrecognized character the tokenizer fails with a
\* lexical error that names the character and its position in the input.
C4_ErrorNamesCharacterAndPosition ==
    [][/\ AtUnrecognized =>
            /\ ThrowsSyntaxError
            /\ Mentions(error'.message, <<input[current + 1]>>)
            /\ ErrorNamesPosition
       /\ ThrownIsFinal]_vars

\* how many call forms are still open at the end of a token sequence
RECURSIVE OpenForms(_)
OpenForms(toks) ==
    IF toks = <<>> THEN 0
    ELSE LET before == OpenForms(SubSeq(toks, 1, Len(toks) - 1))
             last == toks[Len(toks)]
         IN  IF last.type = "paren" /\ last.value = <<"(">> THEN before + 1
             ELSE IF last.type = "paren" /\ last.value = <<")">> /\ before > 0
                  THEN before - 1
                  ELSE before

\* C5: on a token sequence that ends while a call form is still open the
\* parser returns no Program, and the error it fails with is a ParseError,
\* not an unrelated runtime error.
C5_UnclosedFormIsParseError ==
    OpenForms(tokens) > 0 =>
        /\ pc # "transformer"
        /\ pc = "thrown" => error.name = "ParseError"

\* C6: when walk() is called at a token that is neither a number, a string
\* nor an opening paren (a name, or a closing paren at top level), the
\* parser fails with a ParseError: it pushes no undefined element and does
\* not go on with the cursor where it was.
C6_UnexpectedTokenIsParseError ==
    [][(/\ pc = "parser"
        /\ current < Len(tokens)
        /\ \/ tokens[current + 1].type = "name"
           \/ /\ frames = <<>>
              /\ tokens[current + 1] = [type |-> "paren", value |-> <<")">>])
       => /\ pc' = "thrown"
          /\ error'.name = "ParseError"
          /\ ast' = ast
          /\ frames' = frames]_vars

\* the names of the CallExpressions of a source tree
RECURSIVE CallNames(_)
CallNames(node) ==
    (IF node.type = "CallExpression" THEN {node.name} ELSE {})
    \cup UNION {CallNames(Children(node)[k]) : k \in 1..Len(Children(node))}

\* C7: in a Program the parser returns, the name of every CallExpression is
\* non-empty and is the text of a name token.
C7_CallsAreNamedByNameTokens ==
    pc = "transformer" =>
        \A name \in CallNames(ast) :
            /\ name # <<>>
            /\ \E k \in 1..Len(tokens) :
                   tokens[k].type = "name" /\ tokens[k].value = name

\* path p is a proper prefix of path q: the node at p is an ancestor of the
\* node at q
Ancestor(p, q) == Len(p) < Len(q) /\ SubSeq(q, 1, Len(p)) = p

\* neither node is an ancestor of the other, and the subtree of p lies to
\* the left of the subtree of q
LeftOf(p, q) ==
    \E k \in 1..Len(p) :
        /\ k <= Len(q)
        /\ SubSeq(p, 1, k - 1) = SubSeq(q, 1, k - 1)
        /\ p[k] < q[k]

\* invocation a may come before invocation b in a depth-first walk
InOrder(a, b) ==
    \/ a.node = b.node /\ a.callback = "enter" /\ b.callback = "exit"
    \/ Ancestor(a.node, b.node) /\ a.callback = "enter"
    \/ Ancestor(b.node, a.node) /\ b.callback = "exit"
    \/ LeftOf(a.node, b.node)

\* how often callback which has been invoked on the node at path p
Invoked(which, p) ==
    Cardinality({k \in 1..Len(calls) : calls[k].callback = which /\ calls[k].node = p})

\* C9: on a source tree, whatever the visitor registers: every callback is
\* invoked with (node, parent), the parent of the root being null; a node's
\* enter comes before every callback of its descendants and its exit after
\* them; the subtree of a child is finished before the next child starts;
\* and once traverser has returned, each registered enter and exit has been
\* invoked exactly once per node of its type, and no other.
C9_DepthFirstOncePerNode ==
    (\A p \in Paths(ast) : NodeAt(ast, p).type \in KnownTypes) =>
        /\ pc # "thrown"
        /\ \A k \in 1..Len(calls) :
               /\ calls[k].node \in Paths(ast)
               /\ calls[k].parent =
                      IF calls[k].node = <<>> THEN <<0>>
                      ELSE SubSeq(calls[k].node, 1, Len(calls[k].node) - 1)
        /\ \A i, j \in 1..Len(calls) : i < j => InOrder(calls[i], calls[j])
        /\ pc = "traversed" =>
               \A p \in Paths(ast), which \in {"enter", "exit"} :
                   Invoked(which, p) =
                       IF visitor[NodeAt(ast, p).type][which] # NoCallback
                       THEN 1 ELSE 0

\* C9: a Program holding a call with two params has been traversed by a
\* visitor that registers enter and exit for every type: eight invocations
C9_Witness ==
    /\ pc = "traversed"
    /\ Len(ast.body) = 1
    /\ ast.body[1].type = "CallExpression"
    /\ Len(ast.body[1].params) = 2
    /\ \A t \in KnownTypes : visitor[t] = [enter |-> "observer", exit |-> "observer"]
    /\ Len(calls) = 8
    /\ calls[8] = [callback |-> "exit", node |-> <<>>, parent |-> <<0>>]
    /\ calls[3] = [callback |-> "enter", node |-> <<1, 1>>, parent |-> <<1>>]

=============================================================================
